---- MODULE Spec2Model ----
(***************************************************************************)
(* Model of matiks1_dashboard.py: one Streamlit script run over one        *)
(* uploaded CSV.  The script is straight-line code; every statement group  *)
(* is one action, `pc` is the position in the script, and an uncaught      *)
(* Python exception sets `error` and halts the run.                        *)
(*                                                                         *)
(* Conventions                                                             *)
(*   - a cell that may be missing is a set: {} is NaN/NaT, {v} is v;       *)
(*   - a timestamp is an integer number of ticks, TicksPerDay ticks to the *)
(*     day, day 0 = 2024-01-01 (a Monday);                                 *)
(*   - a row is a record keyed by column name, a DataFrame is              *)
(*     [columns, rows]; a group-by result is a function from key to value; *)
(*   - band labels are written in ASCII.                                   *)
(***************************************************************************)
EXTENDS Integers, Sequences, FiniteSets, TLC

VARIABLES pc, uploaded_file, df, defined, dau, wau, mau, revenue_trend,
          rev_segment, rev_device, rev_game, rev_user_segment,
          clustering_data, cohort_data, avg_rev_band, total_rev_band,
          churn_data, top_value, top_retention, shown, error

vars == <<pc, uploaded_file, df, defined, dau, wau, mau, revenue_trend,
          rev_segment, rev_device, rev_game, rev_user_segment,
          clustering_data, cohort_data, avg_rev_band, total_rev_band,
          churn_data, top_value, top_retention, shown, error>>

----------------------------------------------------------------------------
\* Bounds of the model.

\* Longest table under the header the script asks for.
MaxRows == 5

\* Longest table under any other header.
MaxSchemaRows == 2

\* Resolution of the time of day.
TicksPerDay == 2

----------------------------------------------------------------------------
\* Missing values.

NaN == {}

Some(v) == {v}

IsNaN(x) == x = {}

Get(x) == CHOOSE v \in x : TRUE

RECURSIVE SumSeq(_)
SumSeq(s) == IF s = <<>> THEN 0 ELSE Head(s) + SumSeq(Tail(s))

Range(s) == {s[i] : i \in DOMAIN s}

----------------------------------------------------------------------------
\* Calendar: day 0 is 2024-01-01.

IsLeap(y) == (y % 4 = 0 /\ y % 100 # 0) \/ y % 400 = 0

DaysInMonth(y, m) ==
    IF m = 2 THEN (IF IsLeap(y) THEN 29 ELSE 28)
    ELSE IF m \in {4, 6, 9, 11} THEN 30 ELSE 31

RECURSIVE MonthStartFrom(_, _, _, _)
MonthStartFrom(day, y, m, start) ==
    IF day < start + DaysInMonth(y, m) THEN start
    ELSE MonthStartFrom(day, IF m = 12 THEN y + 1 ELSE y,
                        IF m = 12 THEN 1 ELSE m + 1, start + DaysInMonth(y, m))

\* Series.dt.date: the calendar day of a timestamp.
DateOf(ts) == ts \div TicksPerDay

\* Series.dt.weekday: Monday = 0 ... Sunday = 6.
Weekday(ts) == DateOf(ts) % 7

\* Series.dt.to_period("M").dt.to_timestamp(): midnight of the 1st of the month.
MonthOf(ts) == MonthStartFrom(DateOf(ts), 2024, 1, 0) * TicksPerDay

\* pd.to_timedelta(n, unit='d')
Days(n) == n * TicksPerDay

\* (a - b).dt.days: whole days of a timedelta, rounded towards minus infinity.
TimedeltaDays(a, b) == (a - b) \div TicksPerDay

----------------------------------------------------------------------------
\* The uploaded CSV files the runs are checked on.

RequiredCols == {"User_ID", "Last_Login", "Sign_Up", "Revenue"}

CategoricalCols == {"Tier", "Device_Type", "Game_Mode", "User_Segment"}

\* A date cell of the CSV is <<day, tick>> when its text is a date, and <<>>
\* when the text is empty or is no date.
D(day, tick) == <<day, tick>>

BadDate == <<>>

Row(u, su, ll, rev, tier, dev, game, seg) ==
    [User_ID |-> u, Sign_Up |-> su, Last_Login |-> ll, Revenue |-> rev,
     Tier |-> tier, Device_Type |-> dev, Game_Mode |-> game, User_Segment |-> seg]

RowDomain ==
    << Row("A", D(0, 0),  D(0, 0),   Some(10), "Free", "iOS",     "Solo", "Casual"),
       Row("A", D(0, 0),  D(1, 1),   NaN,      "Free", "iOS",     "Duel", "Casual"),
       Row("A", D(0, 1),  D(7, 1),   Some(0),  "Free", "Android", "Solo", "Casual"),
       Row("B", D(0, 0),  D(9, 0),   Some(50), "Pro",  "Android", "Duel", "Core"),
       Row("B", D(1, 0),  D(31, 0),  Some(30), "Pro",  "Android", "Solo", "Core"),
       Row("C", D(0, 0),  D(31, 1),  Some(15), "Free", "iOS",     "Solo", "Core"),
       Row("C", D(0, 0),  D(500, 0), Some(20), "Pro",  "iOS",     "Solo", "Whale"),
       Row("B", D(0, 0),  D(600, 0), Some(-5), "Pro",  "Android", "Duel", "Whale"),
       Row("C", D(4, 0),  D(3, 0),   Some(5),  "Free", "Android", "Solo", "Casual"),
       Row("B", BadDate,  D(2, 0),   Some(10), "Free", "iOS",     "Solo", "Casual"),
       Row("C", D(0, 0),  BadDate,   NaN,      "Free", "iOS",     "Duel", "Casual") >>

\* The tables of n rows, up to the order of the rows (no aggregate of the
\* script depends on it): the rows are taken in the order of RowDomain.
RECURSIVE SortedPicks(_, _)
SortedPicks(n, lo) ==
    IF n = 0 THEN {<<>>}
    ELSE UNION {{<<i>> \o t : t \in SortedPicks(n - 1, i)} : i \in lo..Len(RowDomain)}

Picks(maxLen) == UNION {SortedPicks(n, 1) : n \in 0..maxLen}

RawHeader == {"User ID", "Last_Login", "Sign_Up", "Revenue"} \cup CategoricalCols

\* The other headers: the identifier column already named User_ID, or one
\* column absent.
OtherHeaders ==
    {RequiredCols \cup CategoricalCols} \cup {RawHeader \ {c} : c \in RawHeader}

\* The cells of row r under the header h.
RawRow(r, h) == [c \in h |-> IF c = "User ID" THEN r.User_ID ELSE r[c]]

Csv(h, picks) ==
    [present |-> TRUE, header |-> h,
     rows |-> [i \in DOMAIN picks |-> RawRow(RowDomain[picks[i]], h)]]

NoFile == [present |-> FALSE, header |-> {}, rows |-> <<>>]

Uploads ==
    {Csv(RawHeader, p) : p \in Picks(MaxRows)}
    \cup {Csv(h, p) : h \in OtherHeaders, p \in Picks(MaxSchemaRows)}

----------------------------------------------------------------------------
\* DataFrame helpers.

EmptyFrame == [columns |-> {}, rows |-> <<>>]

NoError == [type |-> "", key |-> "", line |-> 0]

KeyError(col, line) == [type |-> "KeyError", key |-> col, line |-> line]

ValueError(msg, line) == [type |-> "ValueError", key |-> msg, line |-> line]

\* A Series is a sequence of values, one for each row of its frame.
\* df[col]
Column(frame, col) == [i \in DOMAIN frame.rows |-> frame.rows[i][col]]

\* df[col] = values: the column is added, or replaced.
WithColumn(frame, col, values) ==
    [columns |-> frame.columns \cup {col},
     rows |-> [i \in DOMAIN frame.rows |-> (col :> values[i]) @@ frame.rows[i]]]

\* rows[mask], mask a Series of booleans
RECURSIVE Mask(_, _)
Mask(rows, mask) ==
    IF rows = <<>> THEN <<>>
    ELSE (IF Head(mask) THEN <<Head(rows)>> ELSE <<>>) \o Mask(Tail(rows), Tail(mask))

\* df[mask]
Where(frame, mask) == [columns |-> frame.columns, rows |-> Mask(frame.rows, mask)]

\* The keys of df.groupby(keys), keys a Series.
GroupKeys(keys) == Range(keys)

\* The rows of one group.
Group(frame, keys, k) == Mask(frame.rows, [i \in DOMAIN keys |-> keys[i] = k])

\* ["User_ID"].nunique()
NUnique(rows) == Cardinality({rows[i].User_ID : i \in DOMAIN rows})

\* ["User_ID"].count()
Count(rows) == Len(rows)

\* ["Revenue"].sum(): NaN is skipped, every other value is added.
RevenueValues(rows) ==
    LET present == SelectSeq(rows, LAMBDA r : ~IsNaN(r.Revenue))
    IN  [i \in DOMAIN present |-> Get(present[i].Revenue)]

RevenueSum(rows) == SumSeq(RevenueValues(rows))

\* ["Revenue"].mean(): the mean of the values that are not NaN, as the
\* fraction sum/n; NaN (n = 0) when there is none.
RevenueMean(rows) ==
    [sum |-> RevenueSum(rows), n |-> Len(RevenueValues(rows))]

----------------------------------------------------------------------------
\* The statements of the script, as operators.

\* df.rename(columns={"User ID": "User_ID"})
RenameCol(c) == IF c = "User ID" THEN "User_ID" ELSE c

Rename(rows, header) ==
    [i \in DOMAIN rows |->
        [c \in {RenameCol(h) : h \in header} \cup {"index"} |->
            IF c = "User_ID" /\ "User ID" \in header THEN rows[i]["User ID"]
            ELSE rows[i][c]]]

\* pd.read_csv gives the rows the index 0, 1, 2, ...; a row keeps its index
\* through every later statement.
WithIndex(rows) == [i \in DOMAIN rows |-> rows[i] @@ ("index" :> i - 1)]

\* pd.to_datetime(cell, errors="coerce"): the timestamp, or NaT.
ToDatetime(cell) ==
    IF Len(cell) = 2 THEN Some(cell[1] * TicksPerDay + cell[2]) ELSE NaN

\* pd.to_datetime(df[col], errors="coerce")
ParsedDates(frame, col) ==
    [i \in DOMAIN frame.rows |-> ToDatetime(frame.rows[i][col])]

\* the rows dropna(subset=["Last_Login", "Sign_Up"]) keeps
HasBothDates(r) == ~IsNaN(r.Last_Login) /\ ~IsNaN(r.Sign_Up)

BothDates(frame) == [i \in DOMAIN frame.rows |-> HasBothDates(frame.rows[i])]

\* df["Last_Login"].dt.date
LoginDates(frame) ==
    [i \in DOMAIN frame.rows |-> DateOf(Get(frame.rows[i].Last_Login))]

\* df["Last_Login"] - pd.to_timedelta(df["Last_Login"].dt.weekday, unit='d')
WeekOf(ts) == ts - Days(Weekday(ts))

Weeks(frame) ==
    [i \in DOMAIN frame.rows |-> WeekOf(Get(frame.rows[i].Last_Login))]

\* df[col].dt.to_period("M").dt.to_timestamp()
Months(frame, col) ==
    [i \in DOMAIN frame.rows |-> MonthOf(Get(frame.rows[i][col]))]

\* (df["Last_Login"] - df["Sign_Up"]).dt.days
Lifespans(frame) ==
    [i \in DOMAIN frame.rows |->
        TimedeltaDays(Get(frame.rows[i].Last_Login), Get(frame.rows[i].Sign_Up))]

\* df.groupby(keys)["User_ID"].nunique()
NUniqueBy(frame, keys) ==
    [k \in GroupKeys(keys) |-> NUnique(Group(frame, keys, k))]

\* df.groupby(keys)["Revenue"].sum()
RevenueSumBy(frame, keys) ==
    [k \in GroupKeys(keys) |-> RevenueSum(Group(frame, keys, k))]

----------------------------------------------------------------------------
\* Clustering (lines 48-51).

n_clusters == 4

\* df[["Lifespan", "Revenue"]].dropna(): Lifespan is never NaN here.
ClusteringRows(frame) == SelectSeq(frame.rows, LAMBDA r : ~IsNaN(r.Revenue))

\* A fit that accepts one sample fewer than it has clusters.
KMeansRaisesOffByOne(n_samples) == n_samples < n_clusters - 1

\* KMeans(n_clusters).fit(X) raises ValueError when X has fewer samples than
\* clusters.
KMeansRaises(n_samples) == n_samples < n_clusters

\* kmeans.labels_: one label of 0..n_clusters-1 for each sample.  The fit
\* itself (k-means++ seeded with random_state=42, then Lloyd's iterations) is
\* not modelled: the labels are one of two vectors, every sample in cluster 0
\* or the samples dealt to the clusters in turn.
KMeansLabels(n_samples) ==
    {[i \in 1..n_samples |-> (a * i) % n_clusters] : a \in 0..1}

----------------------------------------------------------------------------
\* Banding (lines 146-151 and 168-170).

NoBand == "NaN"

\* pd.cut raises ValueError unless the bin edges increase strictly.
CutRaises(bins) == \E i \in 1..(Len(bins) - 1) : bins[i] >= bins[i + 1]

\* pd.cut(x, bins, labels, right): the label of the interval holding x,
\* (bins[i], bins[i+1]] when right, [bins[i], bins[i+1]) when not; NaN when
\* no interval holds x.
Cut(x, bins, labels, right) ==
    LET holds(i) == IF right THEN bins[i] < x /\ x <= bins[i + 1]
                    ELSE bins[i] <= x /\ x < bins[i + 1]
        hit == {i \in 1..(Len(bins) - 1) : holds(i)}
    IN  IF hit = {} THEN NoBand ELSE labels[CHOOSE i \in hit : TRUE]

Max(S) == CHOOSE m \in S : \A x \in S : x <= m

\* bins = [0, 100, 300, 500, df["Lifespan"].max() + 1]
LoyaltyBins(frame) ==
    <<0, 100, 300, 500, Max({frame.rows[i].Lifespan : i \in DOMAIN frame.rows}) + 1>>

LoyaltyLabels == <<"<100 days", "100-300 days", "300-500 days", "500+ days">>

\* pd.cut(df['Lifespan'], bins=bins, labels=labels, right=False)
LoyaltyBand(lifespan, bins) == Cut(lifespan, bins, LoyaltyLabels, FALSE)

ChurnBins == <<-1, 0, 7, 30>>

ChurnLabels == <<"Same-Day", "<= 7 Days", "<= 30 Days">>

\* The churn bands cut left-closed, as right=False would.
ChurnGroupLeftClosed(lifespan) == Cut(lifespan, ChurnBins, ChurnLabels, FALSE)

\* pd.cut(df["Lifespan"], bins=[-1, 0, 7, 30], labels=churn_labels)
ChurnGroup(lifespan) == Cut(lifespan, ChurnBins, ChurnLabels, TRUE)

\* df["Lifespan"] >= 0
NonNegativeLifespan(frame) ==
    [i \in DOMAIN frame.rows |-> frame.rows[i].Lifespan >= 0]

\* pd.cut over the Lifespan column
LoyaltyBands(frame, bins) ==
    [i \in DOMAIN frame.rows |-> LoyaltyBand(frame.rows[i].Lifespan, bins)]

ChurnGroups(frame) ==
    [i \in DOMAIN frame.rows |-> ChurnGroup(frame.rows[i].Lifespan)]

\* groupby on a categorical column: one group for each label, NaN dropped.
RowsOfBand(frame, col, label) == SelectSeq(frame.rows, LAMBDA r : r[col] = label)

\* round(): to the nearest integer, halves to the even one (b > 0).
RoundDiv(a, b) ==
    LET q == (2 * a + b) \div (2 * b)
    IN  IF (2 * a + b) % (2 * b) = 0 /\ q % 2 = 1 THEN q - 1 ELSE q

\* (x / total * 100).round(2) in hundredths of a percent; a division by
\* zero gives NaN (0/0) or an infinity.
Percent(x, total) ==
    IF total = 0
    THEN [kind |-> IF x = 0 THEN "nan" ELSE IF x > 0 THEN "inf" ELSE "-inf", v |-> 0]
    ELSE [kind |-> "num",
          v |-> IF total > 0 THEN RoundDiv(x * 10000, total)
                ELSE RoundDiv(-x * 10000, -total)]

\* churn_data, with its User_% and Revenue_% columns (lines 172-182)
ChurnData(frame) ==
    LET total_users == NUnique(frame.rows)
        total_revenue == RevenueSum(frame.rows)
    IN  [g \in Range(ChurnLabels) |->
            LET rows == RowsOfBand(frame, "Churn_Group", g)
            IN  [User_Count |-> Count(rows),
                 Avg_Revenue |-> RevenueMean(rows),
                 Total_Revenue |-> RevenueSum(rows),
                 User_pct |-> Percent(Count(rows), total_users),
                 Revenue_pct |-> Percent(RevenueSum(rows), total_revenue)]]

\* cohort_data (lines 111-114)
CohortData(frame) ==
    [k \in GroupKeys(Column(frame, "Signup_Month")) |->
        LET rows == Group(frame, Column(frame, "Signup_Month"), k)
        IN  [User_Count |-> Count(rows), Avg_Revenue |-> RevenueMean(rows)]]

\* df.sort_values(by=col, ascending=False).head(1000): NaN sorts last; the
\* order of equal keys is left as the table has it.
HeadRows == 1000

Before(r, q, col) ==
    IF col = "Revenue"
    THEN ~IsNaN(r.Revenue) /\ (IsNaN(q.Revenue) \/ Get(r.Revenue) > Get(q.Revenue))
    ELSE r[col] > q[col]

RECURSIVE Insert(_, _, _)
Insert(sorted, r, col) ==
    IF sorted = <<>> THEN <<r>>
    ELSE IF Before(r, Head(sorted), col) THEN <<r>> \o sorted
    ELSE <<Head(sorted)>> \o Insert(Tail(sorted), r, col)

RECURSIVE SortDesc(_, _)
SortDesc(rows, col) ==
    IF rows = <<>> THEN <<>>
    ELSE Insert(SortDesc(SubSeq(rows, 1, Len(rows) - 1), col), rows[Len(rows)], col)

Top(frame, col) ==
    LET sorted == SortDesc(frame.rows, col)
    IN  SubSeq(sorted, 1, IF Len(sorted) < HeadRows THEN Len(sorted) ELSE HeadRows)

----------------------------------------------------------------------------
\* The run.

NotYet == <<>>

Init ==
    /\ pc = "start"
    /\ uploaded_file \in {NoFile} \cup Uploads
    /\ df = EmptyFrame
    /\ defined = {}
    /\ dau = NotYet /\ wau = NotYet /\ mau = NotYet /\ revenue_trend = NotYet
    /\ rev_segment = NotYet /\ rev_device = NotYet /\ rev_game = NotYet
    /\ rev_user_segment = NotYet
    /\ clustering_data = NotYet /\ cohort_data = NotYet
    /\ avg_rev_band = NotYet /\ total_rev_band = NotYet /\ churn_data = NotYet
    /\ top_value = NotYet /\ top_retention = NotYet
    /\ shown = <<>>
    /\ error = NoError

\* An uncaught exception ends the script run.
Raise(e) == pc' = "halted" /\ error' = e

Goto(next) == pc' = next /\ error' = error

\* lines 239-240: no file was uploaded
NoUpload ==
    /\ pc = "start" /\ ~uploaded_file.present
    /\ shown' = Append(shown, "info: please upload a CSV file")
    /\ Goto("done")
    /\ UNCHANGED <<uploaded_file, df, defined, dau, wau, mau, revenue_trend,
                   rev_segment, rev_device, rev_game, rev_user_segment,
                   clustering_data, cohort_data, avg_rev_band, total_rev_band,
                   churn_data, top_value, top_retention>>

\* lines 13-15: read_csv and rename
ReadCsv ==
    /\ pc = "start" /\ uploaded_file.present
    /\ df' = [columns |-> {RenameCol(h) : h \in uploaded_file.header},
              rows |-> Rename(WithIndex(uploaded_file.rows), uploaded_file.header)]
    /\ defined' = defined \cup {"df"}
    /\ Goto("to_datetime")
    /\ UNCHANGED <<uploaded_file, dau, wau, mau, revenue_trend,
                   rev_segment, rev_device, rev_game, rev_user_segment,
                   clustering_data, cohort_data, avg_rev_band, total_rev_band,
                   churn_data, top_value, top_retention, shown>>

\* lines 18-19: parse the two date columns
ParseDates ==
    /\ pc = "to_datetime"
    /\ IF "Last_Login" \notin df.columns
       THEN Raise(KeyError("Last_Login", 18)) /\ df' = df
       ELSE LET parsed == WithColumn(df, "Last_Login", ParsedDates(df, "Last_Login"))
            IN  IF "Sign_Up" \notin df.columns
                THEN Raise(KeyError("Sign_Up", 19)) /\ df' = parsed
                ELSE /\ df' = WithColumn(parsed, "Sign_Up", ParsedDates(df, "Sign_Up"))
                     /\ Goto("dropna")
    /\ UNCHANGED <<uploaded_file, defined, dau, wau, mau, revenue_trend,
                   rev_segment, rev_device, rev_game, rev_user_segment,
                   clustering_data, cohort_data, avg_rev_band, total_rev_band,
                   churn_data, top_value, top_retention, shown>>

\* line 22: drop the rows with an invalid date
DropInvalidDates ==
    /\ pc = "dropna"
    /\ df' = Where(df, BothDates(df))
    /\ Goto("dau")
    /\ UNCHANGED <<uploaded_file, defined, dau, wau, mau, revenue_trend,
                   rev_segment, rev_device, rev_game, rev_user_segment,
                   clustering_data, cohort_data, avg_rev_band, total_rev_band,
                   churn_data, top_value, top_retention, shown>>

\* lines 25-26
CalcDAU ==
    /\ pc = "dau"
    /\ IF "User_ID" \notin df.columns
       THEN Raise(KeyError("User_ID", 25)) /\ UNCHANGED <<dau, defined>>
       ELSE /\ dau' = NUniqueBy(df, LoginDates(df))
            /\ defined' = defined \cup {"dau"}
            /\ Goto("wau")
    /\ UNCHANGED <<uploaded_file, df, wau, mau, revenue_trend,
                   rev_segment, rev_device, rev_game, rev_user_segment,
                   clustering_data, cohort_data, avg_rev_band, total_rev_band,
                   churn_data, top_value, top_retention, shown>>

\* lines 29-30
CalcWAU ==
    /\ pc = "wau"
    /\ df' = WithColumn(df, "Week", Weeks(df))
    /\ wau' = NUniqueBy(df', Column(df', "Week"))
    /\ defined' = defined \cup {"wau"}
    /\ Goto("mau")
    /\ UNCHANGED <<uploaded_file, dau, mau, revenue_trend,
                   rev_segment, rev_device, rev_game, rev_user_segment,
                   clustering_data, cohort_data, avg_rev_band, total_rev_band,
                   churn_data, top_value, top_retention, shown>>

\* lines 33-34
CalcMAU ==
    /\ pc = "mau"
    /\ df' = WithColumn(df, "Month", Months(df, "Last_Login"))
    /\ mau' = NUniqueBy(df', Column(df', "Month"))
    /\ defined' = defined \cup {"mau"}
    /\ Goto("revenue_trend")
    /\ UNCHANGED <<uploaded_file, dau, wau, revenue_trend,
                   rev_segment, rev_device, rev_game, rev_user_segment,
                   clustering_data, cohort_data, avg_rev_band, total_rev_band,
                   churn_data, top_value, top_retention, shown>>

\* line 37
RevenueTrend ==
    /\ pc = "revenue_trend"
    /\ IF "Revenue" \notin df.columns
       THEN Raise(KeyError("Revenue", 37)) /\ UNCHANGED <<revenue_trend, defined>>
       ELSE /\ revenue_trend' = RevenueSumBy(df, Column(df, "Month"))
            /\ defined' = defined \cup {"revenue_trend"}
            /\ Goto("segments")
    /\ UNCHANGED <<uploaded_file, df, dau, wau, mau,
                   rev_segment, rev_device, rev_game, rev_user_segment,
                   clustering_data, cohort_data, avg_rev_band, total_rev_band,
                   churn_data, top_value, top_retention, shown>>

\* The table of one of lines 40-43: computed when the statements before it
\* raised nothing and its own column is there.
SegmentCols == <<"Tier", "Device_Type", "Game_Mode", "User_Segment">>

SegmentNames == <<"rev_segment", "rev_device", "rev_game", "rev_user_segment">>

SegmentLines == <<40, 41, 42, 43>>

\* The first of lines 40-43 that raises, 0 when none does.
FirstMissingSegment(frame) ==
    LET missing == {i \in 1..4 : SegmentCols[i] \notin frame.columns}
    IN  IF missing = {} THEN 0 ELSE CHOOSE i \in missing : \A j \in missing : i <= j

SegmentTable(frame, i, raised, old) ==
    IF raised = 0 \/ i < raised
    THEN RevenueSumBy(frame, Column(frame, SegmentCols[i]))
    ELSE old

\* lines 40-43
SegmentTables ==
    /\ pc = "segments"
    /\ LET raised == FirstMissingSegment(df)
       IN  /\ rev_segment' = SegmentTable(df, 1, raised, rev_segment)
           /\ rev_device' = SegmentTable(df, 2, raised, rev_device)
           /\ rev_game' = SegmentTable(df, 3, raised, rev_game)
           /\ rev_user_segment' = SegmentTable(df, 4, raised, rev_user_segment)
           /\ defined' = defined \cup
                {SegmentNames[i] : i \in {j \in 1..4 : raised = 0 \/ j < raised}}
           /\ IF raised = 0 THEN Goto("lifespan")
              ELSE Raise(KeyError(SegmentCols[raised], SegmentLines[raised]))
    /\ UNCHANGED <<uploaded_file, df, dau, wau, mau, revenue_trend,
                   clustering_data, cohort_data, avg_rev_band, total_rev_band,
                   churn_data, top_value, top_retention, shown>>

\* line 46
Lifespan ==
    /\ pc = "lifespan"
    /\ df' = WithColumn(df, "Lifespan", Lifespans(df))
    /\ Goto("clustering")
    /\ UNCHANGED <<uploaded_file, defined, dau, wau, mau, revenue_trend,
                   rev_segment, rev_device, rev_game, rev_user_segment,
                   clustering_data, cohort_data, avg_rev_band, total_rev_band,
                   churn_data, top_value, top_retention, shown>>

\* lines 49-51
Clustering ==
    /\ pc = "clustering"
    /\ LET X == ClusteringRows(df)
       IN  IF KMeansRaises(Len(X))
           THEN /\ Raise(ValueError("n_samples should be >= n_clusters", 50))
                /\ clustering_data' = [i \in DOMAIN X |->
                       [index |-> X[i].index, Lifespan |-> X[i].Lifespan,
                        Revenue |-> X[i].Revenue]]
           ELSE /\ \E labels \in KMeansLabels(Len(X)) :
                     clustering_data' = [i \in DOMAIN X |->
                       [index |-> X[i].index, Lifespan |-> X[i].Lifespan,
                        Revenue |-> X[i].Revenue, Cluster |-> labels[i]]]
                /\ Goto("plots")
    /\ defined' = defined \cup {"clustering_data"}
    /\ UNCHANGED <<uploaded_file, df, dau, wau, mau, revenue_trend,
                   rev_segment, rev_device, rev_game, rev_user_segment,
                   cohort_data, avg_rev_band, total_rev_band,
                   churn_data, top_value, top_retention, shown>>

\* lines 54-107: the charts and tables of everything computed so far
PlotCharts ==
    /\ pc = "plots"
    /\ shown' = shown \o <<"Active Users Overview", "Revenue Trends Over Time",
                           "Revenue by Segment", "User Clusters: Frequency vs Revenue">>
    /\ Goto("cohort")
    /\ UNCHANGED <<uploaded_file, df, defined, dau, wau, mau, revenue_trend,
                   rev_segment, rev_device, rev_game, rev_user_segment,
                   clustering_data, cohort_data, avg_rev_band, total_rev_band,
                   churn_data, top_value, top_retention>>

\* lines 109-129
Cohort ==
    /\ pc = "cohort"
    /\ df' = WithColumn(df, "Signup_Month", Months(df, "Sign_Up"))
    /\ cohort_data' = CohortData(df')
    /\ defined' = defined \cup {"cohort_data"}
    /\ shown' = Append(shown, "Cohort Analysis: User Growth and Revenue Trends")
    /\ Goto("breakdown")
    /\ UNCHANGED <<uploaded_file, dau, wau, mau, revenue_trend,
                   rev_segment, rev_device, rev_game, rev_user_segment,
                   clustering_data, avg_rev_band, total_rev_band,
                   churn_data, top_value, top_retention>>

\* lines 131-144
RevenueBreakdown ==
    /\ pc = "breakdown"
    /\ shown' = Append(shown, "Revenue Breakdown Visualizations")
    /\ Goto("loyalty")
    /\ UNCHANGED <<uploaded_file, df, defined, dau, wau, mau, revenue_trend,
                   rev_segment, rev_device, rev_game, rev_user_segment,
                   clustering_data, cohort_data, avg_rev_band, total_rev_band,
                   churn_data, top_value, top_retention>>

\* lines 146-165
Loyalty ==
    /\ pc = "loyalty"
    /\ LET bins == LoyaltyBins(df)
       IN  IF CutRaises(bins)
           THEN /\ Raise(ValueError("bins must increase monotonically", 149))
                /\ UNCHANGED <<df, avg_rev_band, total_rev_band, defined, shown>>
           ELSE /\ df' = WithColumn(df, "Loyalty_Band", LoyaltyBands(df, bins))
                /\ avg_rev_band' = [b \in Range(LoyaltyLabels) |->
                                      RevenueMean(RowsOfBand(df', "Loyalty_Band", b))]
                /\ total_rev_band' = [b \in Range(LoyaltyLabels) |->
                                        RevenueSum(RowsOfBand(df', "Loyalty_Band", b))]
                /\ defined' = defined \cup {"avg_rev_band", "total_rev_band"}
                /\ shown' = shown \o <<"Average Revenue by User Loyalty Band",
                                       "Total Revenue by User Loyalty Band">>
                /\ Goto("churn")
    /\ UNCHANGED <<uploaded_file, dau, wau, mau, revenue_trend,
                   rev_segment, rev_device, rev_game, rev_user_segment,
                   clustering_data, cohort_data, churn_data, top_value, top_retention>>

\* lines 167-200
Churn ==
    /\ pc = "churn"
    /\ LET kept == Where(df, NonNegativeLifespan(df))
       IN  df' = WithColumn(kept, "Churn_Group", ChurnGroups(kept))
    /\ churn_data' = ChurnData(df')
    /\ defined' = defined \cup {"churn_data"}
    /\ shown' = Append(shown, "Early Churn Segments")
    /\ Goto("high_value")
    /\ UNCHANGED <<uploaded_file, dau, wau, mau, revenue_trend,
                   rev_segment, rev_device, rev_game, rev_user_segment,
                   clustering_data, cohort_data, avg_rev_band, total_rev_band,
                   top_value, top_retention>>

\* lines 202-238
HighValue ==
    /\ pc = "high_value"
    /\ top_value' = Top(df, "Revenue")
    /\ top_retention' = Top(df, "Lifespan")
    /\ defined' = defined \cup {"top_value", "top_retention"}
    /\ shown' = Append(shown, "High-Value vs High-Retention Users")
    /\ Goto("done")
    /\ UNCHANGED <<uploaded_file, df, dau, wau, mau, revenue_trend,
                   rev_segment, rev_device, rev_game, rev_user_segment,
                   clustering_data, cohort_data, avg_rev_band, total_rev_band,
                   churn_data>>

Next ==
    \/ NoUpload
    \/ ReadCsv
    \/ ParseDates
    \/ DropInvalidDates
    \/ CalcDAU
    \/ CalcWAU
    \/ CalcMAU
    \/ RevenueTrend
    \/ SegmentTables
    \/ Lifespan
    \/ Clustering
    \/ PlotCharts
    \/ Cohort
    \/ RevenueBreakdown
    \/ Loyalty
    \/ Churn
    \/ HighValue

Spec == Init /\ [][Next]_vars

----------------------------------------------------------------------------
\* What the claims speak of, computed from the uploaded file alone.

Header == {RenameCol(h) : h \in uploaded_file.header}

HasDateCols == {"Last_Login", "Sign_Up"} \subseteq Header

\* The records of the file with both timestamps parsed.
DatedRecords ==
    IF ~HasDateCols THEN <<>>
    ELSE LET rows == Rename(WithIndex(uploaded_file.rows), uploaded_file.header)
             parsed == [i \in DOMAIN rows |->
                          [Last_Login |-> ToDatetime(rows[i].Last_Login),
                           Sign_Up |-> ToDatetime(rows[i].Sign_Up)] @@ rows[i]]
         IN  SelectSeq(parsed, HasBothDates)

\* The cleaned records: both timestamps parsed and last_active_at >= signup_at.
CleanedRecords ==
    SelectSeq(DatedRecords, LAMBDA r : Get(r.Last_Login) >= Get(r.Sign_Up))

CleanedFrame == [columns |-> Header, rows |-> CleanedRecords]

Indices(rows) == {rows[i].index : i \in DOMAIN rows}

\* The records whose revenue is present and not negative.
RevenueBearing(rows) ==
    SelectSeq(rows, LAMBDA r : ~IsNaN(r.Revenue) /\ Get(r.Revenue) >= 0)

Jan2024 == MonthOf(0)

\* The three-user scenario: A and B valid, C last active before signing up.
IsScenarioABC ==
    /\ uploaded_file.present
    /\ Header = RequiredCols \cup CategoricalCols
    /\ "User ID" \in uploaded_file.header
    /\ Len(uploaded_file.rows) = 3
    /\ \A i \in 1..3 : uploaded_file.rows[i].Revenue = Some(<<10, 50, 5>>[i])
    /\ \A i \in 1..3 : uploaded_file.rows[i].Sign_Up = <<D(0, 0), D(0, 0), D(4, 0)>>[i]
    /\ \A i \in 1..3 : uploaded_file.rows[i].Last_Login = <<D(0, 0), D(9, 0), D(3, 0)>>[i]

----------------------------------------------------------------------------
\* C1: every aggregate is computed from the cleaned records only (both
\* timestamps parsed, lifespan >= 0): DAU, WAU, MAU, the revenue trend and the
\* cluster assignment read no other record, and in the three-user scenario
\* DAU(2024-01-01) = 1 and MAU(January 2024) = 2.
C1_AggregatesReadOnlyCleanedRecords ==
    /\ "dau" \in defined => dau = NUniqueBy(CleanedFrame, LoginDates(CleanedFrame))
    /\ "wau" \in defined => wau = NUniqueBy(CleanedFrame, Weeks(CleanedFrame))
    /\ "mau" \in defined
         => mau = NUniqueBy(CleanedFrame, Months(CleanedFrame, "Last_Login"))
    /\ "revenue_trend" \in defined
         => revenue_trend = RevenueSumBy(CleanedFrame, Months(CleanedFrame, "Last_Login"))
    /\ "clustering_data" \in defined
         => Indices(clustering_data) \subseteq Indices(CleanedRecords)
    /\ IsScenarioABC /\ "mau" \in defined => dau[0] = 1 /\ mau[Jan2024] = 2

\* C2: the loyalty-banding step completes on every cleaned record set, and
\* then every cleaned record carries one of the four loyalty bands.
C2_LoyaltyBandsCoverCleanedRecords ==
    /\ error.line # 149
    /\ "Loyalty_Band" \in df.columns
         => \A i \in DOMAIN df.rows :
               df.rows[i].index \in Indices(CleanedRecords)
                  => df.rows[i].Loyalty_Band \in Range(LoyaltyLabels)

\* The Monday-to-Sunday week a record's last activity falls in.
CalendarWeek(r) == DateOf(Get(r.Last_Login)) - Weekday(Get(r.Last_Login))

\* C3: the WAU bucket key of a record is the Monday (a date) on or before its
\* last activity, so two records of the same Monday-to-Sunday week share
\* their key whatever their time of day, and a user counts once in the week.
C3_WeekKeyIsTheMonday ==
    "wau" \in defined =>
        /\ \A i \in DOMAIN df.rows :
              df.rows[i].Week = Days(CalendarWeek(df.rows[i]))
        /\ \A i, j \in DOMAIN df.rows :
              CalendarWeek(df.rows[i]) = CalendarWeek(df.rows[j])
                 => df.rows[i].Week = df.rows[j].Week
        /\ \A k \in DOMAIN wau :
              wau[k] = NUnique(SelectSeq(df.rows,
                          LAMBDA r : CalendarWeek(r) = DateOf(k) - Weekday(k)))

\* C4: a record without a usable revenue still counts towards DAU, WAU and
\* MAU, and every revenue aggregate is computed over the records whose
\* revenue is present and not negative.
C4_RevenueAggregatesUseValidRevenueOnly ==
    LET valid == [columns |-> df.columns, rows |-> RevenueBearing(df.rows)]
    IN  /\ pc = "revenue_trend"
             => /\ dau = NUniqueBy(df, LoginDates(df))
                /\ wau = NUniqueBy(df, Weeks(df))
                /\ mau = NUniqueBy(df, Months(df, "Last_Login"))
        /\ pc = "segments"
             => \A k \in DOMAIN revenue_trend :
                   revenue_trend[k] = RevenueSum(Group(valid, Column(valid, "Month"), k))
        /\ pc = "lifespan"
             => \A k \in DOMAIN rev_segment :
                   rev_segment[k] = RevenueSum(Group(valid, Column(valid, "Tier"), k))
        /\ pc = "breakdown"
             => \A k \in DOMAIN cohort_data :
                   cohort_data[k].Avg_Revenue
                      = RevenueMean(Group(valid, Column(valid, "Signup_Month"), k))
        /\ pc = "churn"
             => \A b \in DOMAIN total_rev_band :
                   /\ total_rev_band[b] = RevenueSum(RowsOfBand(valid, "Loyalty_Band", b))
                   /\ avg_rev_band[b] = RevenueMean(RowsOfBand(valid, "Loyalty_Band", b))
        /\ pc = "high_value"
             => \A g \in DOMAIN churn_data :
                   /\ churn_data[g].Total_Revenue
                        = RevenueSum(RowsOfBand(valid, "Churn_Group", g))
                   /\ churn_data[g].Avg_Revenue
                        = RevenueMean(RowsOfBand(valid, "Churn_Group", g))

InPercentRange(p) == p.kind = "num" /\ 0 <= p.v /\ p.v <= 10000

\* C5: whenever the churn table is produced, the User_% and the Revenue_% of
\* each churn band is a number of [0, 100].
C5_ChurnSharesWithinRange ==
    "churn_data" \in defined =>
        \A g \in DOMAIN churn_data :
            InPercentRange(churn_data[g].User_pct)
               /\ InPercentRange(churn_data[g].Revenue_pct)

\* The lifespans of a churn band, as the claim gives them.
ChurnRange(g) ==
    IF g = "Same-Day" THEN {0} ELSE IF g = "<= 7 Days" THEN 1..7 ELSE 8..30

\* C6: the churn table is computed over the cleaned records; a record is in
\* Same-Day iff its lifespan is 0, in <=7 Days iff 1..7, in <=30 Days iff
\* 8..30, and in no band iff its lifespan exceeds 30, and a band's count and
\* revenue come from its own records only.
C6_ChurnBands ==
    "churn_data" \in defined =>
        /\ Indices(df.rows) = Indices(CleanedRecords)
        /\ \A i \in DOMAIN df.rows :
              LET r == df.rows[i]
                  lifespan == TimedeltaDays(Get(r.Last_Login), Get(r.Sign_Up))
              IN  /\ \A g \in Range(ChurnLabels) :
                         r.Churn_Group = g <=> lifespan \in ChurnRange(g)
                  /\ r.Churn_Group = NoBand <=> lifespan > 30
        /\ \A g \in Range(ChurnLabels) :
              LET rows == SelectSeq(df.rows, LAMBDA r : r.Lifespan \in ChurnRange(g))
              IN  /\ churn_data[g].User_Count = Len(rows)
                  /\ churn_data[g].Total_Revenue = RevenueSum(rows)

\* The churn table of a run whose records fall in every band and beyond.
C6_Witness ==
    /\ "churn_data" \in defined
    /\ \A g \in Range(ChurnLabels) : churn_data[g].User_Count > 0
    /\ \E i \in DOMAIN df.rows : df.rows[i].Lifespan > 30

AggregateNames ==
    {"dau", "wau", "mau", "revenue_trend", "rev_segment", "rev_device",
     "rev_game", "rev_user_segment", "clustering_data", "cohort_data",
     "avg_rev_band", "total_rev_band", "churn_data"}

MissingRequired == IF uploaded_file.present THEN RequiredCols \ Header ELSE {}

\* C7: when a required field is absent after the header is normalised, no
\* aggregate is computed before the run fails, and the error it fails with
\* names a missing field.
C7_MissingRequiredFieldFailsFirst ==
    MissingRequired # {} =>
        /\ defined \cap AggregateNames = {}
        /\ pc = "halted" => error.key \in MissingRequired

MissingOptional == IF uploaded_file.present THEN CategoricalCols \ Header ELSE {}

\* C8: when only an optional categorical column is absent, the run raises no
\* error over it.
C8_MissingOptionalColumnIsNoError ==
    MissingRequired = {} /\ MissingOptional # {} => error.type # "KeyError"

\* The records the clustering step is given: lifespan and revenue present.
ClusterableRecords == SelectSeq(DatedRecords, LAMBDA r : ~IsNaN(r.Revenue))

Labelled == SelectSeq(clustering_data, LAMBDA c : "Cluster" \in DOMAIN c)

ClusteringOutcome(error_type) ==
    "clustering_data" \in defined =>
        IF Len(ClusterableRecords) < 4
        THEN pc = "halted" /\ error.type = error_type /\ error.line = 50
        ELSE /\ error.line # 50
             /\ \A i \in Indices(ClusterableRecords) :
                   /\ Cardinality({j \in DOMAIN Labelled : Labelled[j].index = i}) = 1
                   /\ \A j \in DOMAIN Labelled :
                         Labelled[j].index = i => Labelled[j].Cluster \in 0..3
             /\ Indices(Labelled) = Indices(ClusterableRecords)

C10_ClusteringFailureIsStageLocal ==
    pc = "halted" /\ error.line = 50
        => {"dau", "wau", "mau", "revenue_trend", "cohort_data", "avg_rev_band",
            "total_rev_band", "churn_data"} \subseteq defined

====
